---- MODULE Spec2Model ----
(***************************************************************************)
(* DynamicBetaKLController (recipe/exploration/dynamic_beta_kl.py).        *)
(*                                                                         *)
(* The controller computes in binary floating point (Python floats and     *)
(* numpy arrays).  A float is modelled as an integer number of units of    *)
(* 1/Scale whose significand has at most MantBits bits; every arithmetic   *)
(* operation of the code is the exact rational operation followed by       *)
(* rounding to the nearest such number, ties to even (Fl).  The format is  *)
(* IEEE-754 with the significand and the exponent range scaled down; the   *)
(* code's float32 arrays and float64 scalars are not distinguished.        *)
(***************************************************************************)
EXTENDS Integers, Sequences, FiniteSets, TLC

VARIABLES
    beta_min, beta_max, eps, ema_alpha,  \* the controller's configuration
    value,                               \* the controller's coefficient
    rewards, uids,                       \* arguments of the call on a fresh controller
    n_rewards, n_uids,                   \* rewards.numel() and len(uids) of the last call
    beta_t,                              \* <<beta_t>> of the last call, <<>> if none was computed
    outcome,                             \* how the last call ended
    pc, loc_beta_t, loc_value,           \* per worker: position and locals (concurrent calls)
    called,                              \* per worker: its call has begun
    overlap,                             \* two concurrent calls were in progress at once
    stored,                              \* the values the concurrent calls stored
    observed,                            \* the value a reader last read
    repeat                               \* the last call repeated the arguments of the one before

config == <<beta_min, beta_max, eps, ema_alpha>>
ghost  == <<rewards, uids, repeat>>
conc   == <<pc, loc_beta_t, loc_value, called, overlap, stored, observed>>
vars   == <<beta_min, beta_max, eps, ema_alpha, value, rewards, uids, n_rewards,
           n_uids, beta_t, outcome, pc, loc_beta_t, loc_value, called, overlap,
           stored, observed, repeat>>

\* Bits of significand of the modelled float format.
MantBits == 4
\* The smallest positive float is 2^-FracBits.
FracBits == 8
\* Longest rewards / uids argument of a call on a fresh controller.
MaxBatch == 4
\* Longest rewards / uids argument in a sequence of calls.
MaxSeqBatch == 2

RECURSIVE Pow2(_)
Pow2(k) == IF k = 0 THEN 1 ELSE 2 * Pow2(k - 1)

Scale == Pow2(FracBits)
\* Significands are below MantLimit.
MantLimit == Pow2(MantBits)

Min(x, y) == IF x <= y THEN x ELSE y
Max(x, y) == IF x >= y THEN x ELSE y

(***************************************************************************)
(* Floating point: rounding and the four operations.                       *)
(***************************************************************************)
\* n/d (n >= 0, d > 0) rounded to the nearest integer, ties to even.
RoundInt(n, d) ==
    LET f == n \div d
        r == n % d
    IN  IF 2 * r < d THEN f
        ELSE IF 2 * r > d THEN f + 1
        ELSE IF f % 2 = 0 THEN f ELSE f + 1

\* The spacing of the floats around n/d: the least q = 2^j with n/d < q * 2^MantBits.
RECURSIVE Quantum(_, _, _)
Quantum(n, d, q) ==
    IF n < d * q * MantLimit THEN q ELSE Quantum(n, d, 2 * q)

RoundPos(n, d) == LET q == Quantum(n, d, 1) IN q * RoundInt(n, d * q)

\* The float nearest to the rational n/d units (d > 0).
Fl(n, d) == IF n >= 0 THEN RoundPos(n, d) ELSE 0 - RoundPos(0 - n, d)

FAdd(x, y) == Fl(x + y, 1)
FSub(x, y) == Fl(x - y, 1)
FMul(x, y) == Fl(x * y, Scale)
\* y # 0 wherever the code divides (G >= 1, pos_sum > eps >= 0, sum R^2 > 0).
FDiv(x, y) == IF y > 0 THEN Fl(x * Scale, y) ELSE Fl((0 - x) * Scale, 0 - y)

\* The float of a Python int.
OfInt(k) == Fl(k * Scale, 1)

\* numpy's add.reduce on a short array: a left-to-right sum.
RECURSIVE FSumFrom(_, _, _)
FSumFrom(xs, i, acc) ==
    IF i > Len(xs) THEN acc ELSE FSumFrom(xs, i + 1, FAdd(acc, xs[i]))
FSum(xs) == FSumFrom(xs, 1, 0)

\* ndarray.mean(): the sum divided by the count.
FMean(xs) == FDiv(FSum(xs), OfInt(Len(xs)))

\* np.clip(x, lo, hi) = minimum(maximum(x, lo), hi).
Clip(x, lo, hi) == Min(Max(x, lo), hi)

(***************************************************************************)
(* update_with_stats: grouping and the per-group reliability score.        *)
(***************************************************************************)
\* groups[uid].append(i) for i, uid in enumerate(uids_list): the groups in the
\* order their uid first occurs (dict insertion order), as <<uid, idxs>>.
RECURSIVE GroupsFrom(_, _, _)
GroupsFrom(uids_list, i, groups) ==
    IF i > Len(uids_list) THEN groups
    ELSE LET uid == uids_list[i]
             hit == {k \in 1..Len(groups) : groups[k][1] = uid}
         IN  IF hit = {}
             THEN GroupsFrom(uids_list, i + 1, Append(groups, <<uid, <<i>>>>))
             ELSE GroupsFrom(uids_list, i + 1,
                     [k \in 1..Len(groups) |->
                         IF k \in hit
                         THEN <<uid, Append(groups[k][2], i)>>
                         ELSE groups[k]])
Groups(uids_list) == GroupsFrom(uids_list, 1, <<>>)

\* g = rr - mean_r
Centered(rr) == LET mean_r == FMean(rr) IN [i \in 1..Len(rr) |-> FSub(rr[i], mean_r)]

\* p = (g > 0).mean()
FracAbove(g) ==
    FDiv(OfInt(Cardinality({i \in 1..Len(g) : g[i] > 0})), OfInt(Len(g)))

\* pos = np.clip(g, 0.0, None)
Relu(g) == [i \in 1..Len(g) |-> Max(g[i], 0)]

\* tilde_n normalised by the number of rollouts above the mean instead of G.
TildeNOverPositives(g, e) ==
    LET pos     == [i \in 1..Len(g) |-> Max(g[i], 0)]
        pos_sum == FSum(pos)
    IN  IF pos_sum <= e THEN 0
        ELSE LET R     == [i \in 1..Len(pos) |-> FDiv(pos[i], pos_sum)]
                 RR    == [i \in 1..Len(R) |-> FMul(R[i], R[i])]
                 n_eff == FDiv(OfInt(1), FSum(RR))
             IN  FDiv(n_eff, OfInt(Cardinality({i \in 1..Len(g) : g[i] > 0})))

\* tilde_n: 0 when pos_sum <= eps, else (1 / sum R_i^2) / G with R = pos / pos_sum.
TildeN(g, e) ==
    LET pos     == Relu(g)
        pos_sum == FSum(pos)
    IN  IF pos_sum <= e THEN 0
        ELSE LET R     == [i \in 1..Len(pos) |-> FDiv(pos[i], pos_sum)]
                 RR    == [i \in 1..Len(R) |-> FMul(R[i], R[i])]
                 n_eff == FDiv(OfInt(1), FSum(RR))
             IN  FDiv(n_eff, OfInt(Len(g)))

\* s_p = 4.0 * p * (1.0 - p)
SP(p) == FMul(FMul(OfInt(4), p), FSub(OfInt(1), p))

\* s = s_p * tilde_n for one group's rewards rr.
GroupScore(rr, e) ==
    LET g == Centered(rr) IN FMul(SP(FracAbove(g)), TildeN(g, e))

\* The loop over groups.items(): rr = r[idxs] raises IndexError as soon as a
\* group holds an index past the end of r; otherwise s is appended to s_list.
RECURSIVE SListFrom(_, _, _, _, _)
SListFrom(r, groups, e, k, s_list) ==
    IF k > Len(groups) THEN [err |-> FALSE, s_list |-> s_list]
    ELSE LET idxs == groups[k][2]
         IN  IF \E j \in 1..Len(idxs) : idxs[j] > Len(r)
             THEN [err |-> TRUE, s_list |-> s_list]
             ELSE LET rr == [j \in 1..Len(idxs) |-> r[idxs[j]]]
                  IN  SListFrom(r, groups, e, k + 1,
                                Append(s_list, GroupScore(rr, e)))
SList(r, u, e) == SListFrom(r, Groups(u), e, 1, <<>>)

\* s_batch as the sum of the scores instead of their mean.
SBatchSum(s_list) == IF Len(s_list) = 0 THEN 0 ELSE FSum(s_list)

\* s_batch = 0.0 if len(s_list) == 0 else float(np.mean(s_list))
SBatch(s_list) == IF Len(s_list) = 0 THEN 0 ELSE FMean(s_list)

\* beta_t interpolated upwards from beta_min instead of downwards from beta_max.
BetaTFromMin(bmin, bmax, s_batch) ==
    Clip(FAdd(bmin, FMul(FSub(bmax, bmin), s_batch)), bmin, bmax)

\* beta_t = beta_max - (beta_max - beta_min) * s_batch, then np.clip.
BetaT(bmin, bmax, s_batch) ==
    Clip(FSub(bmax, FMul(FSub(bmax, bmin), s_batch)), bmin, bmax)

\* a * self.value + (1.0 - a) * beta_t
EmaBlend(a, v, bt) == FAdd(FMul(a, v), FMul(FSub(OfInt(1), a), bt))

\* Smoothing applied (with weight 1/2) even when ema_alpha is None.
NewValueAlwaysBlend(alpha, v, bt) ==
    EmaBlend(IF alpha # <<>> THEN alpha[1] ELSE OfInt(1) \div 2, v, bt)

\* The value stored by lines 98-102: ema_alpha is <<>> (None) or <<a>>.
NewValue(alpha, v, bt) == IF alpha # <<>> THEN EmaBlend(alpha[1], v, bt) ELSE bt

(***************************************************************************)
(* Inputs.                                                                 *)
(***************************************************************************)
\* Rewards -1, 1 and 2.
RewardVals == {0 - Scale, Scale, 2 * Scale}
Uids == {"p1", "p2"}

\* beta_min: 0 and 1.  beta_max: 13/16 and 1.
BetaMinVals == {0, Scale}
BetaMaxVals == {(13 * Scale) \div 16, Scale}
\* eps: the smallest positive float, and 1.0.
EpsVals == {1, Scale}
\* ema_alpha: None, 0, 3/16, 1, and 3/2 (outside [0,1]).
AlphaVals == {<<>>, <<0>>, <<(3 * Scale) \div 16>>, <<Scale>>, <<(3 * Scale) \div 2>>}

SeqsUpTo(S, n) == UNION {[1..k -> S] : k \in 0..n}

\* The arguments <<rewards, uids>> of a call in a sequence of calls (any two
\* lengths), and of the call on a fresh controller (equal lengths).
SeqArgs == SeqsUpTo(RewardVals, MaxSeqBatch) \X SeqsUpTo(Uids, MaxSeqBatch)
FreshArgs == UNION {[1..k -> RewardVals] \X [1..k -> Uids] : k \in 0..MaxBatch}

\* f as an explicit table, evaluated once.
Tabulate(f) == IF f = f THEN f ELSE f

\* The uids a call may pass along with rewards r.
UidsFor(r) ==
    (IF Len(r) <= MaxSeqBatch THEN SeqsUpTo(Uids, MaxSeqBatch) ELSE {})
        \cup [1..Len(r) -> Uids]

\* SList tabulated over the inputs.
SListTable ==
    Tabulate([e \in EpsVals |-> Tabulate([r \in SeqsUpTo(RewardVals, MaxBatch) |->
        Tabulate([u \in UidsFor(r) |-> SList(r, u, e)])])])

\* Lines 56-96: the IndexError, or the clipped beta_t.
Compute(bmin, bmax, e, r, u) ==
    LET res == SListTable[e][r][u]
    IN  IF res.err THEN [err |-> TRUE, beta_t |-> <<>>]
        ELSE [err |-> FALSE, beta_t |-> <<BetaT(bmin, bmax, SBatch(res.s_list))>>]

\* Compute tabulated over the configurations and the inputs.
ComputeTable ==
    Tabulate([bmin \in BetaMinVals |-> Tabulate([bmax \in BetaMaxVals |->
        Tabulate([e \in EpsVals |-> Tabulate([r \in SeqsUpTo(RewardVals, MaxBatch) |->
            Tabulate([u \in UidsFor(r) |-> Compute(bmin, bmax, e, r, u)])])])])])

(***************************************************************************)
(* The controller.                                                         *)
(***************************************************************************)
Workers == {"w1", "w2"}

\* __init__: stores its arguments unchecked; value starts at beta_max.
Init ==
    /\ beta_min \in BetaMinVals
    /\ beta_max \in BetaMaxVals
    /\ eps \in EpsVals
    /\ ema_alpha \in AlphaVals
    /\ value = beta_max
    /\ rewards = <<>> /\ uids = <<>> /\ repeat = FALSE
    /\ n_rewards = 0 /\ n_uids = 0
    /\ beta_t = <<>>
    /\ outcome = "init"
    /\ pc = [w \in Workers |-> "idle"]
    /\ loc_beta_t = [w \in Workers |-> <<>>]
    /\ loc_value = [w \in Workers |-> <<>>]
    /\ called = [w \in Workers |-> FALSE]
    /\ overlap = FALSE
    /\ stored = {}
    /\ observed = beta_max

\* The early return left out.
EarlyReturnNever(r) == FALSE

\* if rewards.numel() == 0: return
EarlyReturn(r) == Len(r) = 0

\* update_with_stats(rewards=r, uids=u), run from entry to return.
update_with_stats(r, u) ==
    /\ n_rewards' = Len(r)
    /\ n_uids' = Len(u)
    /\ IF EarlyReturn(r)
       THEN /\ outcome' = "return"
            /\ beta_t' = <<>>
            /\ value' = value
       ELSE LET res == ComputeTable[beta_min][beta_max][eps][r][u]
            IN  IF res.err
                THEN /\ outcome' = "IndexError"
                     /\ beta_t' = <<>>
                     /\ value' = value
                ELSE /\ outcome' = "return"
                     /\ beta_t' = res.beta_t
                     /\ value' = NewValue(ema_alpha, value, res.beta_t[1])
    /\ UNCHANGED config

\* With ema_alpha outside [0,1] the coefficient grows without bound (to inf in
\* the code); calls are followed while it is within ValueCap.
ValueCap == 4 * Scale
Bounded == value <= ValueCap /\ value >= 0 - ValueCap

\* Any sequence of calls on one controller.
Next ==
    /\ Bounded
    /\ \E a \in SeqArgs :
            update_with_stats(a[1], a[2]) /\ UNCHANGED ghost /\ UNCHANGED conc

Spec == Init /\ [][Next]_vars

\* One call, with rewards and uids of equal length, on a fresh controller with
\* ema_alpha unset; the arguments are recorded.
InitFresh == Init /\ ema_alpha = <<>>
NextFresh ==
    /\ outcome = "init"
    /\ \E a \in FreshArgs :
            /\ update_with_stats(a[1], a[2])
            /\ rewards' = a[1]
            /\ uids' = a[2]
            /\ UNCHANGED <<repeat, conc>>

SpecFresh == InitFresh /\ [][NextFresh]_vars

\* Any sequence of calls on one controller with ema_alpha unset; the arguments
\* of the last call are recorded.
NextRepeat ==
    \E a \in SeqArgs :
        /\ update_with_stats(a[1], a[2])
        /\ rewards' = a[1]
        /\ uids' = a[2]
        /\ repeat' = (outcome # "init" /\ a[1] = rewards /\ a[2] = uids)
        /\ UNCHANGED conc

SpecRepeat == InitFresh /\ [][NextRepeat]_vars

(***************************************************************************)
(* Concurrent calls on one shared controller.  A call reads only its        *)
(* arguments and the configuration up to line 96; line 100 reads self.value *)
(* and then stores self.value, and nothing in the code holds a lock, so     *)
(* another thread's steps may fall between the two.                         *)
(***************************************************************************)
\* self.beta_max read in place of self.value.
LoadedValueInitial == beta_max

\* The self.value that line 100 reads.
LoadedValue == value

seqghost == <<rewards, uids, repeat, n_rewards, n_uids, beta_t, outcome>>

\* Lines 53-96 of worker w's call: return early, raise, or reach line 98 with
\* beta_t computed.
Enter(w, r, u) ==
    /\ pc[w] = "idle" /\ ~called[w]
    /\ called' = [called EXCEPT ![w] = TRUE]
    /\ IF EarlyReturn(r) \/ ComputeTable[beta_min][beta_max][eps][r][u].err
       THEN UNCHANGED <<pc, loc_beta_t, overlap>>
       ELSE /\ loc_beta_t' = [loc_beta_t EXCEPT
                                 ![w] = ComputeTable[beta_min][beta_max][eps][r][u].beta_t]
            /\ pc' = [pc EXCEPT ![w] = IF ema_alpha # <<>> THEN "load" ELSE "store"]
            /\ overlap' = (overlap \/ \E o \in Workers \ {w} : pc[o] # "idle")
    /\ UNCHANGED <<value, loc_value, stored, observed>>
    /\ UNCHANGED <<config, seqghost>>

\* Line 100, right-hand side: read self.value.
Load(w) ==
    /\ pc[w] = "load"
    /\ loc_value' = [loc_value EXCEPT ![w] = <<LoadedValue>>]
    /\ pc' = [pc EXCEPT ![w] = "store"]
    /\ UNCHANGED <<value, loc_beta_t, called, overlap, stored, observed>>
    /\ UNCHANGED <<config, seqghost>>

\* Lines 100/102: store self.value, and return.
Store(w) ==
    /\ pc[w] = "store"
    /\ value' = IF ema_alpha # <<>>
                THEN EmaBlend(ema_alpha[1], loc_value[w][1], loc_beta_t[w][1])
                ELSE loc_beta_t[w][1]
    /\ stored' = stored \cup {value'}
    /\ pc' = [pc EXCEPT ![w] = "idle"]
    /\ UNCHANGED <<loc_beta_t, loc_value, called, overlap, observed>>
    /\ UNCHANGED <<config, seqghost>>

\* A reader reads controller.value.
Read ==
    /\ observed' = value
    /\ UNCHANGED <<value, pc, loc_beta_t, loc_value, called, overlap, stored>>
    /\ UNCHANGED <<config, seqghost>>

InitConc == Init /\ ema_alpha # <<>>
NextConc ==
    \/ \E w \in Workers, a \in SeqArgs : Enter(w, a[1], a[2])
    \/ \E w \in Workers : Load(w)
    \/ \E w \in Workers : Store(w)
    \/ Read

SpecConc == InitConc /\ [][NextConc]_vars

(***************************************************************************)
(* Properties.                                                             *)
(***************************************************************************)
\* beta_min <= beta_max, and ema_alpha unset or in [0,1].
ValidConfig ==
    /\ beta_min <= beta_max
    /\ ema_alpha = <<>> \/ (0 <= ema_alpha[1] /\ ema_alpha[1] <= Scale)

\* The elements of a finite set of integers in ascending order.
RECURSIVE AscSeq(_)
AscSeq(S) ==
    IF S = {} THEN <<>>
    ELSE LET m == CHOOSE x \in S : \A y \in S : x <= y
         IN  <<m>> \o AscSeq(S \ {m})

\* The rollouts of prompt uid in the recorded batch, and their rewards.
IndicesOf(uid) == {i \in 1..Len(uids) : uids[i] = uid}
RewardsOf(uid) ==
    LET idx == AscSeq(IndicesOf(uid)) IN [k \in 1..Len(idx) |-> rewards[idx[k]]]
\* The prompts of the recorded batch, in the order they first occur.
PromptOrder ==
    LET firsts == AscSeq({i \in 1..Len(uids) : \A j \in 1..(i - 1) : uids[j] # uids[i]})
    IN  [k \in 1..Len(firsts) |-> uids[firsts[k]]]

\* C1: with a valid configuration, beta_min <= value <= beta_max initially and
\* after every call (with rewards and uids of equal length) of any sequence of
\* calls.
C1_ValueWithinBounds ==
    (ValidConfig /\ n_rewards = n_uids) => (beta_min <= value /\ value <= beta_max)

\* C2: a call with zero rewards returns normally and leaves value, beta_min,
\* beta_max, eps and ema_alpha as they were.
C2_EmptyBatchNoOp ==
    [][n_rewards' = 0 =>
        (outcome' = "return" /\ value' = value /\ UNCHANGED config)]_vars

\* C2 happens: an empty batch (with uids given) arrived after an update had
\* moved a smoothed value away from its initial beta_max.
C2_Witness ==
    /\ n_rewards = 0 /\ n_uids > 0 /\ outcome = "return"
    /\ ema_alpha # <<>> /\ value # beta_max

\* C3: a call whose (non-empty) rewards and uids differ in length fails with an
\* explicit invalid-argument error and computes no coefficient.
C3_MismatchRejected ==
    (n_rewards > 0 /\ n_rewards # n_uids) =>
        (outcome = "ValueError" /\ beta_t = <<>>)

\* C4: no call ever computes a coefficient on a controller whose configuration
\* is invalid (beta_min > beta_max, or ema_alpha outside [0,1]).
C4_InvalidConfigNeverUpdated ==
    (beta_t # <<>> /\ n_rewards = n_uids) => ValidConfig

\* A group of even size, half of it strictly above the group mean, half strictly
\* below, the positive deviations all equal; it is the whole recorded batch.
BalancedGroup ==
    LET G == Len(rewards)
        g == Centered(rewards)
        above == {i \in 1..G : g[i] > 0}
        below == {i \in 1..G : g[i] < 0}
    IN  /\ outcome = "return" /\ G > 0 /\ G % 2 = 0
        /\ \A i, j \in 1..G : uids[i] = uids[j]
        /\ 2 * Cardinality(above) = G /\ 2 * Cardinality(below) = G
        /\ \A i, j \in above : g[i] = g[j]
PosSum == FSum(Relu(Centered(rewards)))

AllGroupsIdentical ==
    \A i, j \in 1..Len(rewards) : uids[i] = uids[j] => rewards[i] = rewards[j]

\* C6: a group of identical rewards (a group of one included) scores 0; a
\* non-empty batch of such groups gives beta_t = beta_max, and value = beta_max
\* with ema_alpha unset.
C6_IdenticalGroupsScoreZero ==
    (outcome = "return" /\ n_rewards > 0 /\ AllGroupsIdentical) =>
        /\ \A k \in 1..Len(PromptOrder) : GroupScore(RewardsOf(PromptOrder[k]), eps) = 0
        /\ beta_t = <<beta_max>>
        /\ ema_alpha = <<>> => value = beta_max

\* C6 happens: two groups of identical rewards, of sizes 1 and 3 or 2 and 2,
\* with different rewards, under beta_min < beta_max.
C6_Witness ==
    /\ outcome = "return" /\ Len(rewards) = 4 /\ AllGroupsIdentical
    /\ Len(PromptOrder) = 2 /\ rewards[1] # rewards[4]
    /\ beta_min < beta_max /\ ema_alpha = <<>>

\* C7: with ema_alpha set, the value after an update of a non-empty batch lies
\* between the value before and the fresh beta_t.
C7_EmaBetween ==
    [][(ValidConfig /\ ema_alpha # <<>> /\ beta_t' # <<>> /\ n_rewards' = n_uids') =>
        /\ Min(value, beta_t'[1]) <= value'
        /\ value' <= Max(value, beta_t'[1])]_vars

\* What the recorded call yields on a fresh controller of the same configuration.
FreshValue ==
    NewValue(ema_alpha, beta_max,
             Compute(beta_min, beta_max, eps, rewards, uids).beta_t[1])

\* C8: with ema_alpha unset, an update's value is the one the same batch gives
\* on a fresh controller, whatever came before; the same batch twice in a row
\* gives the same value twice.
C8_Deterministic ==
    /\ []((ema_alpha = <<>> /\ outcome = "return" /\ n_rewards > 0) => value = FreshValue)
    /\ [][(ema_alpha = <<>> /\ repeat' /\ n_rewards' > 0
              /\ outcome = "return" /\ outcome' = "return") => value' = value]_vars

\* C8 happens: the same non-empty batch was passed twice in a row, and its
\* value is not the initial beta_max.
C8_Witness ==
    /\ repeat /\ outcome = "return" /\ n_rewards > 0 /\ n_rewards = n_uids
    /\ ema_alpha = <<>> /\ value # beta_max

\* beta_t as stated: the groups are the sets of rollouts with equal uid, each
\* group counts once in the mean of the scores, and the result is clamped.
StatedBetaT ==
    LET scores  == [k \in 1..Len(PromptOrder) |->
                       GroupScore(RewardsOf(PromptOrder[k]), eps)]
        s_batch == FDiv(FSum(scores), OfInt(Len(scores)))
    IN  Clip(FSub(beta_max, FMul(FSub(beta_max, beta_min), s_batch)),
             beta_min, beta_max)

\* The groups the code builds partition the rollouts by uid.
GroupsPartition ==
    LET groups == Groups(uids)
        Idx(k) == {groups[k][2][j] : j \in 1..Len(groups[k][2])}
    IN  /\ \A i \in 1..Len(uids) :
              Cardinality({k \in 1..Len(groups) : i \in Idx(k)}) = 1
        /\ \A k \in 1..Len(groups) :
              /\ Idx(k) = IndicesOf(groups[k][1])
              /\ Cardinality(Idx(k)) = Len(groups[k][2])

\* beta_min = 0, beta_max = 1, one group with rewards [1, 1, -1, -1].
ExampleBatch ==
    /\ beta_min = 0 /\ beta_max = OfInt(1)
    /\ rewards = <<OfInt(1), OfInt(1), OfInt(0 - 1), OfInt(0 - 1)>>
    /\ \A i \in 1..4 : uids[i] = uids[1]

\* C10: on a non-empty batch the rollouts are partitioned by uid, s_batch is the
\* unweighted mean of the group scores and beta_t the clamped interpolation;
\* the example batch gives beta_t = 0.5.
C10_BetaTFormula ==
    (outcome = "return" /\ n_rewards > 0) =>
        /\ GroupsPartition
        /\ beta_t = <<StatedBetaT>>
        /\ ValidConfig => (beta_min <= beta_t[1] /\ beta_t[1] <= beta_max)
        /\ (ExampleBatch /\ eps < OfInt(1)) => beta_t = <<OfInt(1) \div 2>>

\* C10 happens: the example batch, and a batch of two groups of sizes 1 and 3
\* whose scores differ.
C10_Witness ==
    /\ outcome = "return" /\ ExampleBatch /\ eps < OfInt(1)

\* Every worker's call has returned; the workers whose call stored a value.
AllReturned == \A w \in Workers : called[w] /\ pc[w] = "idle"
Updaters == {w \in Workers : loc_beta_t[w] # <<>>}

\* The orders in which the workers of S can run one after another.
Orders(S) ==
    {o \in [1..Cardinality(S) -> S] : \A i, j \in 1..Cardinality(S) : i # j => o[i] # o[j]}

\* The value after the updates of order o run one after another from v.
RECURSIVE ApplyFrom(_, _, _)
ApplyFrom(o, k, v) ==
    IF k > Len(o) THEN v
    ELSE ApplyFrom(o, k + 1, NewValue(ema_alpha, v, loc_beta_t[o[k]][1]))

\* The results of all the updates, and of the updates of some non-empty subset,
\* applied in some serial order.
SerialResults == {ApplyFrom(o, 1, beta_max) : o \in Orders(Updaters)}
SubsetSerialResults ==
    UNION {{ApplyFrom(o, 1, beta_max) : o \in Orders(S)} : S \in (SUBSET Updaters) \ {{}}}

\* C9 as stated: a reader sees the initial value or a stored one, and once all
\* calls have returned value is the result of all the updates applied in some
\* serial order, under every interleaving.
C9_NoLostUpdate ==
    /\ observed \in {beta_max} \cup stored
    /\ AllReturned => value \in SerialResults

\* C9 amended: a reader sees the initial value or a stored one; once all calls
\* have returned value is the result of a non-empty subset of the updates
\* applied in some serial order, and of all of them when no two calls overlapped.
C9_SerialWhenNotOverlapped ==
    /\ observed \in {beta_max} \cup stored
    /\ (AllReturned /\ Updaters # {}) => value \in SubsetSerialResults
    /\ (AllReturned /\ ~overlap) => value \in SerialResults

\* C9 happens: two updates ran one after the other and both moved the value,
\* and a reader saw the first one's value.
C9_Witness ==
    /\ AllReturned /\ ~overlap /\ Cardinality(Updaters) = 2
    /\ Cardinality(stored) = 2 /\ observed \in stored /\ observed # value

====
